---- MODULE Spec2Model ----
(***************************************************************************)
(* A model of watcher_checker.py: the price normalizer, the three field    *)
(* extractors, the differ (summarize_changes), the state store             *)
(* (load_state / save_state over the page_state table), the checker        *)
(* (check_page) and the command line batch loop.                           *)
(*                                                                         *)
(* Texts are TLA+ strings, read character by character with SubSeq.  The   *)
(* module is kept in ASCII, so four characters of the source are written   *)
(* with stand-ins:  "Kc" for the crown sign K-c-caron, "~" for the         *)
(* no-break space \xa0, "->" for the arrow of the change messages, and the *)
(* Czech messages and keywords are written without diacritics.             *)
(*                                                                         *)
(* Python values that may be None are tagged records: PyNone, PyStr(s),    *)
(* PyList(seq), PyInt(n), PyDict(record).                                  *)
(***************************************************************************)
EXTENDS Integers, Sequences, FiniteSets, TLC

VARIABLES
    store,      \* the page_state table: url -> row (NoRow: no row for the url)
    clock,      \* the time datetime.utcnow() returns next
    pc,         \* the command line run: "idle", "loop", "done"
    urls,       \* args.urls of the run
    no_save,    \* args.no_save
    json_flag,  \* args.json
    idx,        \* how many urls the loop of the run has processed
    results,    \* the results dict of the run: url -> entry (NoEntry: no key)
    calls,      \* the calls of check_page of the run, in order, each with
                \* its arguments, what it read and built, and its outcome
    stdout,     \* what the run wrote with print(): the --json output
    arg,        \* the function specifications: the input drawn
    res         \* the function specifications: the call made and its value

vars == <<store, clock, pc, urls, no_save, json_flag, idx, results, calls,
          stdout, arg, res>>

---------------------------------------------------------------------------
(* Python values *)

PyNone == [type |-> "NoneType"]

PyStr(s) == [type |-> "str", val |-> s]

PyList(xs) == [type |-> "list", val |-> xs]

PyInt(n) == [type |-> "int", val |-> n]

PyDict(d) == [type |-> "dict", val |-> d]

\* Python truthiness of a value: None, "", [], 0 and {} are falsy.
Truthy(v) ==
    CASE v.type = "NoneType" -> FALSE
      [] v.type = "str" -> v.val # ""
      [] v.type = "list" -> Len(v.val) > 0
      [] v.type = "int" -> v.val # 0
      [] v.type = "dict" -> DOMAIN v.val # {}
      [] OTHER -> TRUE

\* str(v) as an f-string renders it, for None and for strings.
PyFormat(v) == IF v.type = "NoneType" THEN "None" ELSE v.val

\* d.get(k, default) of a dict d, a TLA+ record.
GetOr(d, k, default) == IF k \in DOMAIN d THEN d[k] ELSE default

\* d.get(k)
Get(d, k) == GetOr(d, k, PyNone)

---------------------------------------------------------------------------
(* Characters and strings *)

Ch(s, i) == SubSeq(s, i, i)

Digits == "0123456789"

UpperLetters == "ABCDEFGHIJKLMNOPQRSTUVWXYZ"

LowerLetters == "abcdefghijklmnopqrstuvwxyz"

\* The position of character c in the string abc, 0 when it is not there.
RECURSIVE IndexIn(_, _, _)
IndexIn(c, abc, i) ==
    IF i > Len(abc) THEN 0
    ELSE IF Ch(abc, i) = c THEN i
    ELSE IndexIn(c, abc, i + 1)

\* The value of each digit character
DigitValue == [c \in {Ch(Digits, k) : k \in 1..Len(Digits)} |-> IndexIn(c, Digits, 1) - 1]

IsDigit(c) == c \in DOMAIN DigitValue

DigitVal(c) == DigitValue[c]

\* \s of the regular expressions and the whitespace of str.strip / str.split:
\* the space, the newline and the no-break space ("~").
IsSpace(c) == c = " " \/ c = "\n" \/ c = "~"

\* The lower-case letter of each upper-case letter
LowerOf ==
    [c \in {Ch(UpperLetters, k) : k \in 1..Len(UpperLetters)} |->
       Ch(LowerLetters, IndexIn(c, UpperLetters, 1))]

LowerCh(c) == IF c \in DOMAIN LowerOf THEN LowerOf[c] ELSE c

RECURSIVE Lower(_)
Lower(s) == IF s = "" THEN "" ELSE LowerCh(Head(s)) \o Lower(Tail(s))

RECURSIVE LStrip(_)
LStrip(s) == IF s # "" /\ IsSpace(Head(s)) THEN LStrip(Tail(s)) ELSE s

RECURSIVE RStrip(_)
RStrip(s) ==
    IF s # "" /\ IsSpace(Ch(s, Len(s))) THEN RStrip(SubSeq(s, 1, Len(s) - 1))
    ELSE s

\* str.strip()
Strip(s) == RStrip(LStrip(s))

\* Whether pat occurs in s at position i.
StartsAt(s, pat, i) ==
    i + Len(pat) - 1 <= Len(s) /\ SubSeq(s, i, i + Len(pat) - 1) = pat

\* The first position >= i at which pat occurs in s, 0 when there is none.
RECURSIVE FindFrom(_, _, _)
FindFrom(s, pat, i) ==
    IF i + Len(pat) - 1 > Len(s) THEN 0
    ELSE IF StartsAt(s, pat, i) THEN i
    ELSE FindFrom(s, pat, i + 1)

\* re.search(re.escape(pat), s): a literal substring.
Contains(s, pat) == FindFrom(s, pat, 1) > 0

\* re.search(re.escape(pat), s, flags=re.IGNORECASE)
ContainsI(s, pat) == Contains(Lower(s), Lower(pat))

\* The words of str.split(): the maximal runs without whitespace.
RECURSIVE Split(_, _)
Split(s, word) ==
    IF s = "" THEN (IF word = "" THEN <<>> ELSE <<word>>)
    ELSE IF IsSpace(Head(s))
         THEN (IF word = "" THEN <<>> ELSE <<word>>) \o Split(Tail(s), "")
         ELSE Split(Tail(s), word \o Head(s))

\* sep.join(parts)
RECURSIVE Join(_, _)
Join(sep, parts) ==
    IF Len(parts) = 0 THEN ""
    ELSE IF Len(parts) = 1 THEN parts[1]
    ELSE parts[1] \o sep \o Join(sep, Tail(parts))

\* " ".join(d.split()): whitespace collapsed
Collapse(d) == Join(" ", Split(d, ""))

\* The length of the run of digits of s that starts at position i.
RECURSIVE DigitRun(_, _)
DigitRun(s, i) ==
    IF i <= Len(s) /\ IsDigit(Ch(s, i)) THEN 1 + DigitRun(s, i + 1) ELSE 0

\* The position of the first digit of s at or after i, 0 when there is none.
RECURSIVE FirstDigit(_, _)
FirstDigit(s, i) ==
    IF i > Len(s) THEN 0
    ELSE IF IsDigit(Ch(s, i)) THEN i
    ELSE FirstDigit(s, i + 1)

\* int(s) of a string of digits ("" gives 0).
RECURSIVE ToNat(_)
ToNat(s) ==
    IF s = "" THEN 0
    ELSE 10 * ToNat(SubSeq(s, 1, Len(s) - 1)) + DigitVal(Ch(s, Len(s)))

\* str(n) of a natural number.
RECURSIVE NatStr(_)
NatStr(n) ==
    IF n < 10 THEN Ch(Digits, n + 1)
    ELSE NatStr(n \div 10) \o Ch(Digits, (n % 10) + 1)

---------------------------------------------------------------------------
(* Normalizer: normalize_price *)

\* s.replace(old, "") / s.replace(old, new) for a one-character old.
RECURSIVE Replace(_, _, _)
Replace(s, old, new) ==
    IF s = "" THEN ""
    ELSE (IF Head(s) = old THEN new ELSE Head(s)) \o Replace(Tail(s), old, new)

\* (?:[ \xa0]\d{3})* read greedily from position q: the position after it.
RECURSIVE ThousandsEnd(_, _)
ThousandsEnd(t, q) ==
    IF q <= Len(t) /\ Ch(t, q) \in {" ", "~"} /\ DigitRun(t, q + 1) >= 3
    THEN ThousandsEnd(t, q + 4)
    ELSE q

\* (?:[.,]\d+)? read greedily from position q: the position after it.
FractionEnd(t, q) ==
    IF q <= Len(t) /\ Ch(t, q) \in {".", ","} /\ DigitRun(t, q + 1) >= 1
    THEN q + 1 + DigitRun(t, q + 1)
    ELSE q

\* Group 2 of the first regular expression,
\*   [+-]?\d{1,3}(?:[ \xa0]\d{3})*(?:[.,]\d+)?
\* Everything before the group (currency, \s*, the sign) matches no digit and
\* everything after it is optional, so the leftmost match has its \d{1,3}
\* at the first digit p of the text, takes a sign standing right before it,
\* and each greedy choice stands.
PrimaryGroup(t, p) ==
    LET start == IF p > 1 /\ Ch(t, p - 1) \in {"+", "-"} THEN p - 1 ELSE p
        d1 == IF DigitRun(t, p) > 3 THEN 3 ELSE DigitRun(t, p)
        q == FractionEnd(t, ThousandsEnd(t, p + d1))
    IN  SubSeq(t, start, q - 1)

\* The end of [\d \xa0\.,]* read greedily from position q.
RECURSIVE LooseEnd(_, _)
LooseEnd(t, q) ==
    IF q <= Len(t) /\ (IsDigit(Ch(t, q)) \/ Ch(t, q) \in {" ", "~", ".", ","})
    THEN LooseEnd(t, q + 1)
    ELSE q

\* Group 1 of the second regular expression, [+-]?\d[\d \xa0\.,]*
LooseGroup(t, p) ==
    LET start == IF p > 1 /\ Ch(t, p - 1) \in {"+", "-"} THEN p - 1 ELSE p
    IN  SubSeq(t, start, LooseEnd(t, p + 1) - 1)

\* Whether float(s) parses, for s made of a sign, digits and points:
\* [+-]? ( digits+ ( "." digits* )? | "." digits+ )
IsFloatText(s) ==
    LET body == IF s # "" /\ Head(s) \in {"+", "-"} THEN Tail(s) ELSE s
        w == DigitRun(body, 1)
        rest == SubSeq(body, w + 1, Len(body))
    IN  \/ w >= 1 /\ rest = ""
        \/ w >= 1 /\ Head(rest) = "." /\ DigitRun(rest, 2) = Len(rest) - 1
        \/ w = 0 /\ rest # "" /\ Head(rest) = "." /\ Len(rest) >= 2
              /\ DigitRun(rest, 2) = Len(rest) - 1

\* f"{float(s):.2f}" of a text float(s) parses.  The value is kept as a
\* number of hundredths; a fraction of more than two digits is rounded on its
\* third digit (an exact tie, which Python settles on the binary value, is
\* rounded up here).
FormatFloat2(s) ==
    LET neg == s # "" /\ Head(s) = "-"
        body == IF s # "" /\ Head(s) \in {"+", "-"} THEN Tail(s) ELSE s
        w == DigitRun(body, 1)
        frac == SubSeq(body, w + 2, Len(body))
        two == SubSeq(frac \o "00", 1, 2)
        up == IF Len(frac) > 2 /\ DigitVal(Ch(frac, 3)) >= 5 THEN 1 ELSE 0
        hundredths == 100 * ToNat(SubSeq(body, 1, w)) + ToNat(two) + up
        cents == hundredths % 100
    IN  (IF neg THEN "-" ELSE "") \o NatStr(hundredths \div 100) \o "."
          \o (IF cents < 10 THEN "0" ELSE "") \o NatStr(cents)

normalize_price(text) ==
    IF ~Truthy(text) THEN PyNone
    ELSE
      LET t == Strip(text.val)
          p == FirstDigit(t, 1)
          \* both re.search calls need a digit to match
          num == IF p > 0 THEN PrimaryGroup(t, p) ELSE LooseGroup(t, p)
          num_norm == Replace(Replace(Replace(num, "~", ""), " ", ""), ",", ".")
      IN  IF p = 0 THEN PyStr(t)
          ELSE IF IsFloatText(num_norm) THEN PyStr(FormatFloat2(num_norm))
          ELSE PyStr(num_norm)

---------------------------------------------------------------------------
(* The parsed document.  A document is the sequence of the elements of the  *)
(* page body in document order; an element has a tag, the attributes the    *)
(* extractors read, the text of its one text node ("" when it has none),    *)
(* and, for a list, the texts of its <li> items.  Elements are siblings:    *)
(* the model has no nesting below a list's items.                           *)

NewElement(tag, itemprop, cls, id, content, text, items) ==
    [tag |-> tag, itemprop |-> itemprop, cls |-> cls, id |-> id,
     content |-> content, text |-> text, items |-> items]

\* <meta itemprop=... content=...>; content PyNone when the attribute is absent
Meta(itemprop, content) == NewElement("meta", itemprop, "", "", content, "", <<>>)

\* <span itemprop=... class=...>text</span>
Span(itemprop, cls, text) == NewElement("span", itemprop, cls, "", PyNone, text, <<>>)

\* <div id=...>text</div>
DivId(id, text) == NewElement("div", "", "", id, PyNone, text, <<>>)

\* <p>text</p>
Par(text) == NewElement("p", "", "", "", PyNone, text, <<>>)

\* <h1>text</h1> ... <h6>text</h6>
Heading(tag, text) == NewElement(tag, "", "", "", PyNone, text, <<>>)

\* <ul><li>..</li>..</ul> or <ol>..</ol>
ListOf(tag, items) == NewElement(tag, "", "", "", PyNone, "", items)

IsList(el) == el.tag \in {"ul", "ol"}

\* [f(x) for x in xs if x.strip()], the stripped texts that are not empty
RECURSIVE StrippedNonEmpty(_)
StrippedNonEmpty(xs) ==
    IF Len(xs) = 0 THEN <<>>
    ELSE (IF Strip(Head(xs)) = "" THEN <<>> ELSE <<Strip(Head(xs))>>)
           \o StrippedNonEmpty(Tail(xs))

\* The text nodes below an element, in document order.
TextNodes(el) == IF IsList(el) THEN el.items ELSE <<el.text>>

\* el.get_text(sep, strip=True): the stripped text nodes below el that are
\* not empty, joined by sep.
get_text(el, sep) == Join(sep, StrippedNonEmpty(TextNodes(el)))

RECURSIVE DocTextNodes(_)
DocTextNodes(doc) ==
    IF Len(doc) = 0 THEN <<>>
    ELSE TextNodes(Head(doc)) \o DocTextNodes(Tail(doc))

\* soup.get_text(sep, strip=True)
soup_get_text(doc, sep) == Join(sep, StrippedNonEmpty(DocTextNodes(doc)))

\* The selectors the extractors pass to select_one
PriceMarkerSelector == "[itemprop=\"price\"], meta[itemprop=\"price\"]"

PriceClassSelector == "[class*=\"price\"], [id*=\"price\"]"

AvailabilitySelector ==
    "[itemprop=\"availability\"], [class*=\"availability\"], [id*=\"availability\"]"

\* [itemprop="price"], meta[itemprop="price"]
IsPriceMarker(el) == el.itemprop = "price"

\* [class*="price"], [id*="price"]
IsPriceClass(el) == Contains(el.cls, "price") \/ Contains(el.id, "price")

\* [itemprop="availability"], [class*="availability"], [id*="availability"]
IsAvailabilityMarker(el) ==
    \/ el.itemprop = "availability"
    \/ Contains(el.cls, "availability")
    \/ Contains(el.id, "availability")

\* Whether the element el matches the selector
Matches(selector, el) ==
    IF selector = PriceMarkerSelector THEN IsPriceMarker(el)
    ELSE IF selector = PriceClassSelector THEN IsPriceClass(el)
    ELSE IF selector = AvailabilitySelector THEN IsAvailabilityMarker(el)
    ELSE FALSE

\* soup.select_one(selector): the index of the first element of the document
\* that matches the selector, 0 when there is none (select_one returns None).
RECURSIVE SelectFrom(_, _, _)
SelectFrom(doc, selector, i) ==
    IF i > Len(doc) THEN 0
    ELSE IF Matches(selector, doc[i]) THEN i
    ELSE SelectFrom(doc, selector, i + 1)

select_one(doc, selector) == SelectFrom(doc, selector, 1)

---------------------------------------------------------------------------
(* Price Extractor: extract_price *)

\* [ ]*(Kc|CZK) from position q: the position after the match, 0 when it fails.
RECURSIVE CurrencyEnd(_, _)
CurrencyEnd(t, q) ==
    IF q <= Len(t) /\ Ch(t, q) = " " THEN CurrencyEnd(t, q + 1)
    ELSE IF StartsAt(t, "Kc", q) THEN q + 2
    ELSE IF StartsAt(t, "CZK", q) THEN q + 3
    ELSE 0

\* (?:[.,]\d+)? then the currency, from position q, the fraction having at most
\* n digits: the alternatives in the order the regex engine tries them.
RECURSIVE FractionThenCurrency(_, _, _)
FractionThenCurrency(t, q, n) ==
    IF n = 0 \/ ~(q <= Len(t) /\ Ch(t, q) \in {".", ","}) THEN CurrencyEnd(t, q)
    ELSE IF CurrencyEnd(t, q + 1 + n) > 0 THEN CurrencyEnd(t, q + 1 + n)
    ELSE FractionThenCurrency(t, q, n - 1)

\* (?:[ \xa0]\d{3})* then the rest, from position q: one more group first.
RECURSIVE ThousandsThenCurrency(_, _)
ThousandsThenCurrency(t, q) ==
    LET more == IF q <= Len(t) /\ Ch(t, q) \in {" ", "~"} /\ DigitRun(t, q + 1) >= 3
                THEN ThousandsThenCurrency(t, q + 4)
                ELSE 0
    IN  IF more > 0 THEN more
        ELSE FractionThenCurrency(t, q, DigitRun(t, q + 1))

\* \d{1,3} of d1 digits then the rest, from position s: most digits first.
RECURSIVE CurrencyMatchWith(_, _, _)
CurrencyMatchWith(t, s, d1) ==
    IF d1 = 0 THEN 0
    ELSE IF ThousandsThenCurrency(t, s + d1) > 0 THEN ThousandsThenCurrency(t, s + d1)
    ELSE CurrencyMatchWith(t, s, d1 - 1)

\* (\d{1,3}(?:[ \xa0]\d{3})*(?:[.,]\d+)?)[ ]*(Kc|CZK) matched at position s:
\* the position after the match, 0 when there is no match at s.
CurrencyMatchAt(t, s) ==
    CurrencyMatchWith(t, s, IF DigitRun(t, s) > 3 THEN 3 ELSE DigitRun(t, s))

\* re.search of that expression: m.group(0) of the leftmost match as PyStr,
\* PyNone when there is no match.
RECURSIVE CurrencySearch(_, _)
CurrencySearch(t, s) ==
    IF s > Len(t) THEN PyNone
    ELSE IF CurrencyMatchAt(t, s) > 0 THEN PyStr(SubSeq(t, s, CurrencyMatchAt(t, s) - 1))
    ELSE CurrencySearch(t, s + 1)

\* The step of the cascade that returns: 1, 2, 3, or 4 for the final None.
price_step(doc) ==
    IF select_one(doc, PriceMarkerSelector) > 0 THEN 1
    ELSE IF CurrencySearch(soup_get_text(doc, " "), 1) # PyNone THEN 2
    ELSE IF select_one(doc, PriceClassSelector) > 0 THEN 3
    ELSE 4

\* The cascade falling through to the next step when a step's value is None
extract_price_fallthrough(doc) ==
    LET el == select_one(doc, PriceMarkerSelector)
        m == CurrencySearch(soup_get_text(doc, " "), 1)
        price_el == select_one(doc, PriceClassSelector)
        v1 == IF el = 0 THEN PyNone
              ELSE IF doc[el].tag = "meta" THEN normalize_price(doc[el].content)
              ELSE normalize_price(PyStr(get_text(doc[el], " ")))
    IN  IF v1 # PyNone THEN v1
        ELSE IF m # PyNone THEN normalize_price(m)
        ELSE IF price_el > 0 THEN normalize_price(PyStr(get_text(doc[price_el], " ")))
        ELSE PyNone

extract_price(doc) ==
    LET el == select_one(doc, PriceMarkerSelector)
        m == CurrencySearch(soup_get_text(doc, " "), 1)
        price_el == select_one(doc, PriceClassSelector)
    IN  IF el > 0
        THEN IF doc[el].tag = "meta" THEN normalize_price(doc[el].content)
             ELSE normalize_price(PyStr(get_text(doc[el], " ")))
        ELSE IF m # PyNone THEN normalize_price(m)
        ELSE IF price_el > 0 THEN normalize_price(PyStr(get_text(doc[price_el], " ")))
        ELSE PyNone

---------------------------------------------------------------------------
(* Availability Extractor: extract_availability *)

\* The .{0,40} of the keyword search
AvailContext == 40

\* The keywords of the loop, in its order
AvailKeywords ==
    <<"Skladem", "Vyprodano", "Neni skladem", "Do tydne", "Na objednavku",
      "Dostupne", "Available", "Out of stock", "In stock">>

\* \s* read greedily from position q: the position after it.
RECURSIVE SkipSpace(_, _)
SkipSpace(t, q) ==
    IF q <= Len(t) /\ IsSpace(Ch(t, q)) THEN SkipSpace(t, q + 1) ELSE q

\* The first position of the line of t that holds position q.
RECURSIVE LineStart(_, _)
LineStart(t, q) ==
    IF q <= 1 \/ Ch(t, q - 1) = "\n" THEN q ELSE LineStart(t, q - 1)

\* The last position of the line of t that holds position q (q - 1 when position
\* q is a newline or past the end).
RECURSIVE LineEnd(_, _)
LineEnd(t, q) ==
    IF q > Len(t) \/ Ch(t, q) = "\n" THEN q - 1 ELSE LineEnd(t, q + 1)

\* Group 2 of (Dostupnost\s*[:\-]?\s*([^\n\r]+)) for the label found at
\* position s, PyNone when the expression does not match there.  Both \s* are
\* greedy; when they leave nothing for [^\n\r]+ the engine gives back, in
\* turn, the last character of the second \s*, the [:\-], and the last
\* character of the first \s*, and [^\n\r]+ starts at the character given
\* back unless it is a newline.
LabelGroupAt(t, s) ==
    LET q1 == SkipSpace(t, s + Len("Dostupnost"))
        colon == q1 <= Len(t) /\ Ch(t, q1) \in {":", "-"}
        q2 == IF colon THEN q1 + 1 ELSE q1
        q3 == SkipSpace(t, q2)
        back == IF q3 > q2 THEN q3 - 1
                ELSE IF colon THEN q1
                ELSE IF q1 > s + Len("Dostupnost") THEN q1 - 1
                ELSE 0
    IN  IF q3 <= Len(t) THEN PyStr(SubSeq(t, q3, LineEnd(t, q3)))
        ELSE IF back > 0 /\ Ch(t, back) # "\n"
             THEN PyStr(SubSeq(t, back, LineEnd(t, back)))
        ELSE PyNone

\* re.search of the label expression with re.IGNORECASE, from position s (lt
\* is t in lower case): group 2 of the leftmost match, PyNone when there is
\* none.
RECURSIVE LabelSearch(_, _, _)
LabelSearch(t, lt, s) ==
    LET p == FindFrom(lt, "dostupnost", s)
    IN  IF p = 0 THEN PyNone
        ELSE IF LabelGroupAt(t, p) # PyNone THEN LabelGroupAt(t, p)
        ELSE LabelSearch(t, lt, p + 1)

\* The last position p in from..to at which the lower-case keyword lkw occurs
\* in the lower-case text lt with all of it on the line that ends at lineEnd;
\* 0 when there is none.
RECURSIVE LastOccurrence(_, _, _, _, _)
LastOccurrence(lt, lkw, from, to, lineEnd) ==
    IF to < from THEN 0
    ELSE IF StartsAt(lt, lkw, to) /\ to + Len(lkw) - 1 <= lineEnd THEN to
    ELSE LastOccurrence(lt, lkw, from, to - 1, lineEnd)

\* re.search(r'.{0,40}' + re.escape(kw) + r'.{0,40}', t, re.IGNORECASE).group(0)
\* for a keyword whose first occurrence in t is at p1: the leftmost start is
\* at most 40 characters before p1 and on its line, the first .{0,40} is
\* greedy (the last occurrence within its reach is the one matched) and the
\* second takes up to 40 characters of the rest of the line.
KeywordContext(t, lt, kw, p1) ==
    LET ls == LineStart(t, p1)
        le == LineEnd(t, p1)
        s == IF p1 - AvailContext > ls THEN p1 - AvailContext ELSE ls
        p == LastOccurrence(lt, Lower(kw), s, s + AvailContext, le)
        after == p + Len(kw)
        e == IF after + AvailContext - 1 < le THEN after + AvailContext - 1 ELSE le
    IN  SubSeq(t, s, e)

\* The keyword loop from the k-th keyword on: the context of the first keyword
\* of the list found in t (lt is t in lower case).
RECURSIVE KeywordLoop(_, _, _)
KeywordLoop(t, lt, k) ==
    IF k > Len(AvailKeywords) THEN PyNone
    ELSE IF Contains(lt, Lower(AvailKeywords[k]))
         THEN PyStr(Strip(KeywordContext(t, lt, AvailKeywords[k],
                                         FindFrom(lt, Lower(AvailKeywords[k]), 1))))
    ELSE KeywordLoop(t, lt, k + 1)

\* Lines 132-141: the two searches in text = soup.get_text("\n", strip=True),
\* both with re.IGNORECASE.
availability_from_text(text) ==
    LET m == LabelSearch(text, Lower(text), 1)
    IN  IF m # PyNone THEN PyStr(Strip(m.val)) ELSE KeywordLoop(text, Lower(text), 1)

extract_availability(doc) ==
    LET el == select_one(doc, AvailabilitySelector)
    IN  IF el > 0 THEN PyStr(get_text(doc[el], " "))
        ELSE availability_from_text(soup_get_text(doc, "\n"))

---------------------------------------------------------------------------
(* Details Extractor: extract_details *)

\* for header_tag in [...]
HeaderTags == <<"h1", "h2", "h3", "h4", "h5", "h6">>

\* while count < 8
SiblingLimit == 8

\* spec_headers[:3]
SpecHeaderLimit == 3

\* soup.find_all("li")[:50]
LiLimit == 50

\* xs[:n]
Take(xs, n) == SubSeq(xs, 1, IF Len(xs) < n THEN Len(xs) ELSE n)

\* [li.get_text(" ", strip=True) for li in el.find_all("li")]: every item's
\* text, the empty ones included.
ItemTexts(el) == [k \in 1..Len(el.items) |-> Strip(el.items[k])]

\* re.compile(r'podrobnost', re.IGNORECASE) searched in the heading's string
IsDetailsHeading(el, header_tag) ==
    el.tag = header_tag /\ el.text # "" /\ ContainsI(el.text, "podrobnost")

\* re.compile(r'(specifikace|specification|parametr|parameters)', re.IGNORECASE)
IsSpecText(text) ==
    \/ ContainsI(text, "specifikace")
    \/ ContainsI(text, "specification")
    \/ ContainsI(text, "parametr")
    \/ ContainsI(text, "parameters")

\* The sibling walk of lines 158-167 from the element at position i on, count
\* siblings taken so far: the texts appended.
RECURSIVE SiblingTexts(_, _, _)
SiblingTexts(doc, i, count) ==
    IF count >= SiblingLimit \/ i > Len(doc) THEN <<>>
    ELSE (IF get_text(doc[i], " ") # "" THEN <<get_text(doc[i], " ")>> ELSE <<>>)
           \o SiblingTexts(doc, i + 1, count + 1)

\* The body of "for hdr in hdrs" for the heading at position i, entered with
\* details empty: what details holds at its end (returned when not empty).
AfterHeading(doc, i) ==
    LET fromList == IF i < Len(doc) /\ IsList(doc[i + 1])
                    THEN ItemTexts(doc[i + 1])
                    ELSE <<>>
    IN  IF Len(fromList) > 0 THEN fromList
        ELSE SiblingTexts(doc, i + 1, 0)

\* The two loops of lines 147-169, from heading level k and position i on:
\* the list returned, <<>> when neither loop returns.
RECURSIVE HeadingScan(_, _, _)
HeadingScan(doc, k, i) ==
    IF k > Len(HeaderTags) THEN <<>>
    ELSE IF i > Len(doc) THEN HeadingScan(doc, k + 1, 1)
    ELSE IF IsDetailsHeading(doc[i], HeaderTags[k]) /\ Len(AfterHeading(doc, i)) > 0
         THEN AfterHeading(doc, i)
    ELSE HeadingScan(doc, k, i + 1)

\* soup.find_all(string=...): for each matching text node in document order,
\* the position of the element it stands in (its parent, or the list of the
\* <li> that is its parent).
RECURSIVE MatchingItems(_, _)
MatchingItems(items, i) ==
    IF Len(items) = 0 THEN <<>>
    ELSE (IF IsSpecText(Head(items)) THEN <<i>> ELSE <<>>)
           \o MatchingItems(Tail(items), i)

RECURSIVE SpecHeaders(_, _)
SpecHeaders(doc, i) ==
    IF i > Len(doc) THEN <<>>
    ELSE MatchingItems(TextNodes(doc[i]), i) \o SpecHeaders(doc, i + 1)

\* parent.find_next("ul"): the first <ul> after position i, 0 when none.
RECURSIVE FindNextUl(_, _)
FindNextUl(doc, i) ==
    IF i >= Len(doc) THEN 0
    ELSE IF doc[i + 1].tag = "ul" THEN i + 1
    ELSE FindNextUl(doc, i + 1)

\* The loop of lines 173-180 over the positions shs: the list returned, <<>>
\* when the loop ends without returning.
RECURSIVE SpecScan(_, _)
SpecScan(doc, shs) ==
    IF Len(shs) = 0 THEN <<>>
    ELSE LET ul == FindNextUl(doc, Head(shs))
         IN  IF ul > 0 /\ Len(ItemTexts(doc[ul])) > 0 THEN ItemTexts(doc[ul])
             ELSE SpecScan(doc, Tail(shs))

\* Every <li> of the document in document order: soup.find_all("li")
RECURSIVE AllItems(_)
AllItems(doc) ==
    IF Len(doc) = 0 THEN <<>>
    ELSE (IF IsList(Head(doc)) THEN Head(doc).items ELSE <<>>) \o AllItems(Tail(doc))

\* Lines 187-193: whitespace collapsed, empty entries dropped, duplicates
\* dropped keeping the first.
RECURSIVE Dedupe(_, _)
Dedupe(details, seen) ==
    IF Len(details) = 0 THEN <<>>
    ELSE LET d2 == Collapse(Head(details))
         IN  IF d2 # "" /\ d2 \notin seen
             THEN <<d2>> \o Dedupe(Tail(details), seen \cup {d2})
             ELSE Dedupe(Tail(details), seen)

\* The step of the cascade that returns: 1 (heading), 2 (specification
\* keyword) or 3 (all list items, the only one that runs lines 187-193).
details_step(doc) ==
    IF Len(HeadingScan(doc, 1, 1)) > 0 THEN 1
    ELSE IF Len(SpecScan(doc, Take(SpecHeaders(doc, 1), SpecHeaderLimit))) > 0 THEN 2
    ELSE 3

extract_details(doc) ==
    LET byHeading == HeadingScan(doc, 1, 1)
        bySpec == SpecScan(doc, Take(SpecHeaders(doc, 1), SpecHeaderLimit))
        fallback == StrippedNonEmpty(Take(AllItems(doc), LiLimit))
    IN  IF Len(byHeading) > 0 THEN byHeading
        ELSE IF Len(bySpec) > 0 THEN bySpec
        ELSE Dedupe(fallback, {})

---------------------------------------------------------------------------
(* Outcomes of a call: a value returned, or an exception raised *)

Return(v) == [raised |-> FALSE, exc |-> "", value |-> v]

Raise(e) == [raised |-> TRUE, exc |-> e, value |-> PyNone]

\* old.get(...) on a value that is no dict (a JSON array, number or string)
AttributeError == "AttributeError: object has no attribute 'get'"

\* "d not in old_det" / "for d in old_det" with old_det None
NoneNotIterable == "TypeError: 'NoneType' object is not iterable"

\* save_state(url, new_snapshot) where save_state is the bool parameter
BoolNotCallable == "TypeError: 'bool' object is not callable"

\* r.raise_for_status() or requests.get raising
RequestError == "requests.RequestException"

---------------------------------------------------------------------------
(* Differ: summarize_changes *)

\* added[:10], removed[:10]
ListedLimit == 10

NoPriorMessage == "Zadny predchozi zaznam - ulozeno jako vychozi stav."

\* (v or "")
OrEmpty(v) == IF Truthy(v) THEN v ELSE PyStr("")

\* Whether float(v) returns, for v None or a string
FloatParses(v) == v.type = "str" /\ IsFloatText(Strip(v.val))

\* float(v) in hundredths, for a text float() parses (exact for a text of at
\* most two fraction digits, as normalize_price writes them).
Hundredths(v) ==
    LET t == Strip(v.val)
        neg == Head(t) = "-"
        body == IF Head(t) \in {"+", "-"} THEN Tail(t) ELSE t
        w == DigitRun(body, 1)
        frac == SubSeq(body, w + 2, Len(body))
        up == IF Len(frac) > 2 /\ DigitVal(Ch(frac, 3)) >= 5 THEN 1 ELSE 0
        mag == 100 * ToNat(SubSeq(body, 1, w)) + ToNat(SubSeq(frac \o "00", 1, 2)) + up
    IN  IF neg THEN 0 - mag ELSE mag

Abs(n) == IF n < 0 THEN 0 - n ELSE n

\* f" ({pct:+.2f}%)" for pct = (b - a) / a * 100.0, a and b in hundredths,
\* a # 0: the quotient rounded to two decimals, with its sign.  The
\* arithmetic is on 32-bit integers: exact for prices that differ by less
\* than 1000, above which TLC reports the overflow.
PctSuffix(a, b) ==
    LET num == (b - a) * 10000
        neg == (num < 0 /\ a > 0) \/ (num > 0 /\ a < 0)
        mag == (2 * Abs(num) + Abs(a)) \div (2 * Abs(a))
        cents == mag % 100
    IN  " (" \o (IF neg THEN "-" ELSE "+") \o NatStr(mag \div 100) \o "."
          \o (IF cents < 10 THEN "0" ELSE "") \o NatStr(cents) \o "%)"

\* changes = [], changed = False
NoChanges == [changed |-> FALSE, changes |-> <<>>]

\* changed = True; changes.append(entry)
Fired(acc, entry) == [changed |-> TRUE, changes |-> Append(acc.changes, entry)]

\* Lines 213-227: the price comparison.
ComparePrice(acc, old_price, new_price) ==
    IF OrEmpty(old_price) # OrEmpty(new_price)
    THEN Fired(acc, "Cena: " \o PyFormat(old_price) \o " -> " \o PyFormat(new_price)
                      \o (IF /\ FloatParses(old_price) /\ FloatParses(new_price)
                             /\ Hundredths(old_price) # 0
                          THEN PctSuffix(Hundredths(old_price), Hundredths(new_price))
                          ELSE ""))
    ELSE acc

\* The availability comparison without the "or ''": None and "" differ
CompareAvailabilityStrict(acc, old_av, new_av) ==
    IF old_av # new_av
    THEN Fired(acc, "Dostupnost: " \o PyFormat(old_av) \o " -> " \o PyFormat(new_av))
    ELSE acc

\* Lines 230-232: the availability comparison.
CompareAvailability(acc, old_av, new_av) ==
    IF OrEmpty(old_av) # OrEmpty(new_av)
    THEN Fired(acc, "Dostupnost: " \o PyFormat(old_av) \o " -> " \o PyFormat(new_av))
    ELSE acc

\* [d for d in xs if d not in ys]
RECURSIVE NotIn(_, _)
NotIn(xs, ys) ==
    IF Len(xs) = 0 THEN <<>>
    ELSE (IF \E k \in 1..Len(ys) : ys[k] = Head(xs) THEN <<>> ELSE <<Head(xs)>>)
           \o NotIn(Tail(xs), ys)

\* Lines 239-241: if added
CompareAdded(acc, added) ==
    IF Len(added) > 0
    THEN Fired(acc, "Pridano v podrobnostech: " \o Join("; ", Take(added, ListedLimit)))
    ELSE acc

\* "if removed" without its "changed = True"
CompareRemovedNoFlag(acc, removed) ==
    IF Len(removed) > 0
    THEN [acc EXCEPT !.changes =
            Append(@, "Odebrano v podrobnostech: " \o Join("; ", Take(removed, ListedLimit)))]
    ELSE acc

\* Lines 242-244: if removed
CompareRemoved(acc, removed) ==
    IF Len(removed) > 0
    THEN Fired(acc, "Odebrano v podrobnostech: " \o Join("; ", Take(removed, ListedLimit)))
    ELSE acc

NewReport(acc, old, new) ==
    [changed |-> acc.changed, changes |-> acc.changes, old |-> old, new |-> new]

\* summarize_changes(old, new): old is None or whatever json.loads gave, new
\* is the dict check_page built.
summarize_changes(old, new) ==
    IF old = PyNone THEN Return(NewReport(Fired(NoChanges, NoPriorMessage), old, new))
    ELSE IF old.type # "dict" THEN Raise(AttributeError)
    ELSE
      LET old_det == IF Truthy(old) THEN GetOr(old.val, "details", PyList(<<>>))
                     ELSE PyList(<<>>)
          new_det == GetOr(new.val, "details", PyList(<<>>))
          acc1 == ComparePrice(NoChanges, Get(old.val, "price"), Get(new.val, "price"))
          acc2 == CompareAvailability(acc1, Get(old.val, "availability"),
                                      Get(new.val, "availability"))
      IN  IF old_det.type # "list" THEN Raise(NoneNotIterable)
          ELSE LET acc3 == CompareAdded(acc2, NotIn(new_det.val, old_det.val))
                   acc4 == CompareRemoved(acc3, NotIn(old_det.val, new_det.val))
               IN  Return(NewReport(acc4, old, new))

---------------------------------------------------------------------------
(* State Store: the page_state table, load_state, save_state *)

NoRow == [present |-> FALSE]

\* A row (url, snapshot, checked_at) of the table, without its key
Row(snapshot_text, checked_at) ==
    [present |-> TRUE, snapshot |-> snapshot_text, checked_at |-> checked_at]

\* A text of the snapshot column: one that json.loads parses to the value doc,
\* or one it rejects.  json.dumps / json.loads of a dict of strings, None and
\* lists of strings gives the dict back, so a text is kept as the value it
\* parses to.
JsonText(doc) == [valid |-> TRUE, doc |-> doc]

NotJsonText == [valid |-> FALSE, doc |-> PyNone]

json_dumps(v) == JsonText(v)

json_loads(text) ==
    IF text.valid THEN Return(text.doc) ELSE Raise("json.JSONDecodeError")

load_state(st, url) ==
    IF ~st[url].present THEN PyNone
    ELSE IF json_loads(st[url].snapshot).raised THEN PyNone
    ELSE json_loads(st[url].snapshot).value

\* save_state(url, snapshot) at a time now: the table after the upsert
save_state(st, now, url, snapshot) ==
    [st EXCEPT ![url] = Row(json_dumps(snapshot), now)]

---------------------------------------------------------------------------
(* Checker: check_page *)

\* Lines 254-256: the three extractors on the parsed page
Extracted(doc) ==
    [price |-> extract_price(doc),
     availability |-> extract_availability(doc),
     details |-> PyList(extract_details(doc))]

\* A product page with the semantic markers and a details list
PageMarked ==
    <<Meta("price", PyStr("1 299,90")),
      Span("availability", "", "Skladem"),
      Heading("h2", "Podrobnosti"),
      ListOf("ul", <<"Barva: cerna", "Vaha 2 kg">>)>>

\* The same product later: price, availability and one detail changed
PageMarkedLater ==
    <<Meta("price", PyStr("999")),
      Span("availability", "", "Vyprodano"),
      Heading("h2", "Podrobnosti"),
      ListOf("ul", <<"Barva: cerna", "Vaha 3 kg">>)>>

\* A page without markers, nor anything the extractors find
PagePlain == <<Par("Vitejte")>>

Pages == {PageMarked, PageMarkedLater, PagePlain}

\* The extractors' values on the pages of the model (each evaluated once)
PageFields == [d \in Pages |-> Extracted(d)]

\* The dict of line 258, from the values of lines 254-256
SnapshotOf(fields, now) ==
    PyDict([price |-> fields.price,
            availability |-> fields.availability,
            details |-> fields.details,
            checked_at |-> now])

\* Lines 254-258: the snapshot of the page doc at the time now
NewSnapshot(doc, now) == SnapshotOf(PageFields[doc], now)

\* What fetch_html and BeautifulSoup(html, "lxml") give for a page
ParsedHtml(doc) == [type |-> "BeautifulSoup", body |-> doc]

\* The outcome of one call of check_page(url, save_state=persist): whether
\* fetch_html returned, the row of the url when the call began, the snapshot
\* built (PyNone when none was), what the call returned or raised, and the
\* table and the clock when it ends.
Outcome(url, persist, html, st, new, result, st2, clk2) ==
    [url |-> url, persist |-> persist, fetched |-> ~html.raised,
     stored |-> st[url], new |-> new, result |-> result,
     store |-> st2, clock |-> clk2]

\* Lines 263-266 had "save_state" named the function of line 62 there: the
\* snapshot is written when the flag is set, and the summary returned
Saved(url, persist, html, st, clk, new_snapshot, summary) ==
    IF summary.raised
    THEN Outcome(url, persist, html, st, new_snapshot, summary, st, clk + 1)
    ELSE Outcome(url, persist, html, st, new_snapshot, summary,
                 save_state(st, clk + 1, url, new_snapshot), clk + 1)

\* check_page calling the function save_state of line 62, whatever the flag
check_page_saving(url, persist, html, st, clk) ==
    IF html.raised THEN Outcome(url, persist, html, st, PyNone, html, st, clk)
    ELSE Saved(url, persist, html, st, clk, NewSnapshot(html.value.body, clk),
               summarize_changes(load_state(st, url),
                                 NewSnapshot(html.value.body, clk)))

\* Lines 263-266, summary being what summarize_changes returned or raised.
\* Inside check_page the name save_state is the bool parameter of line 250,
\* not the function of line 62: with the flag set, line 264 calls the bool.
Concluded(url, persist, html, st, clk, new_snapshot, summary) ==
    IF summary.raised
    THEN Outcome(url, persist, html, st, new_snapshot, summary, st, clk + 1)
    ELSE IF persist
    THEN Outcome(url, persist, html, st, new_snapshot, Raise(BoolNotCallable),
                 st, clk + 1)
    ELSE Outcome(url, persist, html, st, new_snapshot, summary, st, clk + 1)

\* Lines 259-266, new_snapshot being the dict of line 258
Compared(url, persist, html, st, clk, new_snapshot) ==
    Concluded(url, persist, html, st, clk, new_snapshot,
              summarize_changes(load_state(st, url), new_snapshot))

\* check_page(url, save_state=persist) on the table st at time clk, fetch_html
\* giving html: the outcome of the call.
check_page(url, persist, html, st, clk) ==
    IF html.raised THEN Outcome(url, persist, html, st, PyNone, html, st, clk)
    ELSE Compared(url, persist, html, st, clk, NewSnapshot(html.value.body, clk))

---------------------------------------------------------------------------
(* The command line run and the bounds of the model *)

URLs == {"u1", "u2"}

\* The longest list of urls of a run
MaxBatch == 2

\* The clock stops here: no call that reads it starts at this time
MaxClock == 3

\* What fetch_html can do for a url: return one of the pages, or raise
FetchOutcomes == {Return(ParsedHtml(d)) : d \in Pages} \cup {Raise(RequestError)}

\* The rows the table may hold for a url when the program starts (the
\* database file outlives the process, CREATE TABLE IF NOT EXISTS keeps what
\* is there): none, a text that is not JSON, JSON null, a JSON array, a JSON
\* object whose details is null, and a snapshot written earlier.
InitRows ==
    {NoRow,
     Row(NotJsonText, 0),
     Row(JsonText(PyNone), 0),
     Row(JsonText(PyList(<<>>)), 0),
     Row(JsonText(PyDict([price |-> PyStr("1299.90"), availability |-> PyNone,
                          details |-> PyNone, checked_at |-> 0])), 0),
     Row(JsonText(NewSnapshot(PageMarked, 0)), 0)}

Batches == UNION {[1..n -> URLs] : n \in 1..MaxBatch}

\* What the run keeps of a call of check_page, for the properties below
CallRecord(call) ==
    [url |-> call.url, persist |-> call.persist, fetched |-> call.fetched,
     stored |-> call.stored, new |-> call.new, result |-> call.result]

NoEntry == [kind |-> "none"]

\* results[url] = res
ReportEntry(report) == [kind |-> "report", report |-> report]

\* results[url] = {"error": str(e)}
ErrorEntry(message) == [kind |-> "error", error |-> message]

NoResults == [u \in URLs |-> NoEntry]

\* The function specifications: no call made yet, and a call with its value
NotCalled == [fn |-> "none", value |-> PyNone]

Called(fn, value) == [fn |-> fn, value |-> value]

Init ==
    /\ store \in [URLs -> InitRows]
    /\ clock = 1
    /\ pc = "idle"
    /\ urls = <<>>
    /\ no_save = FALSE
    /\ json_flag = FALSE
    /\ idx = 0
    /\ results = NoResults
    /\ calls = <<>>
    /\ stdout = <<>>
    /\ arg = PyNone
    /\ res = NotCalled

\* Lines 271-277: the arguments parsed, results = {}
Start(us, ns, js) ==
    /\ pc = "idle"
    /\ pc' = "loop"
    /\ urls' = us
    /\ no_save' = ns
    /\ json_flag' = js
    /\ idx' = 0
    /\ results' = NoResults
    /\ calls' = <<>>
    /\ stdout' = <<>>
    /\ UNCHANGED <<store, clock, arg, res>>

\* Lines 278-296: one turn of the loop, fetch_html giving html.  Whatever
\* check_page raises is caught and recorded; what it returns is recorded.
Iterate(html) ==
    /\ pc = "loop"
    /\ idx < Len(urls)
    /\ html.raised \/ clock < MaxClock
    /\ \E call \in {check_page(urls[idx + 1], ~no_save, html, store, clock)} :
           /\ results' = [results EXCEPT ![call.url] =
                            IF call.result.raised THEN ErrorEntry(call.result.exc)
                            ELSE ReportEntry(call.result.value)]
           /\ calls' = Append(calls, CallRecord(call))
           /\ store' = call.store
           /\ clock' = call.clock
    /\ idx' = idx + 1
    /\ UNCHANGED <<pc, urls, no_save, json_flag, stdout, arg, res>>

\* Lines 298-299: the loop is over; with --json the results are printed
Finish ==
    /\ pc = "loop"
    /\ idx = Len(urls)
    /\ pc' = "done"
    /\ stdout' = IF json_flag THEN <<results>> ELSE <<>>
    /\ UNCHANGED <<store, clock, urls, no_save, json_flag, idx, results, calls,
                   arg, res>>

\* The process ends; the table stays in the database file
Exit ==
    /\ pc = "done"
    /\ pc' = "idle"
    /\ urls' = <<>>
    /\ no_save' = FALSE
    /\ json_flag' = FALSE
    /\ idx' = 0
    /\ results' = NoResults
    /\ calls' = <<>>
    /\ stdout' = <<>>
    /\ UNCHANGED <<store, clock, arg, res>>

\* A program that imports the module calls save_state(url, snapshot) with the
\* snapshot of a page
SaveStateCall(url, doc) ==
    /\ pc = "idle"
    /\ clock < MaxClock
    /\ store' = save_state(store, clock, url, NewSnapshot(doc, clock))
    /\ clock' = clock + 1
    /\ UNCHANGED <<pc, urls, no_save, json_flag, idx, results, calls, stdout,
                   arg, res>>

Next ==
    \/ \E us \in Batches, ns \in BOOLEAN, js \in BOOLEAN : Start(us, ns, js)
    \/ \E html \in FetchOutcomes : Iterate(html)
    \/ Finish
    \/ Exit
    \/ \E url \in URLs, doc \in Pages : SaveStateCall(url, doc)

Spec == Init /\ [][Next]_vars

---------------------------------------------------------------------------
(* The extractors as functions of the document: SpecExtract draws a         *)
(* document and applies one extractor to it.                                *)

\* The longest document drawn
MaxDocLen == 3

\* The elements documents are made of
Elements ==
    {Meta("price", PyStr("1 299,90")),
     Meta("price", PyNone),
     Span("price", "", ""),
     Span("", "product-price", "150"),
     DivId("price-box", ""),
     Par("Cena 199 Kc"),
     Heading("h2", "Podrobnosti"),
     Par("Specifikace:"),
     ListOf("ul", <<"Vaha  2 kg", "Vaha 2 kg", " ">>),
     ListOf("ol", <<"Skladem", "Skladem">>)}

Docs == UNION {[1..n -> Elements] : n \in 0..MaxDocLen}

\* The variables of the command line run, at rest
RunAtRest ==
    /\ store = [u \in URLs |-> NoRow]
    /\ clock = 1
    /\ pc = "idle"
    /\ urls = <<>>
    /\ no_save = FALSE
    /\ json_flag = FALSE
    /\ idx = 0
    /\ results = NoResults
    /\ calls = <<>>
    /\ stdout = <<>>

RunVars == <<store, clock, pc, urls, no_save, json_flag, idx, results, calls, stdout>>

InitExtract ==
    /\ RunAtRest
    /\ arg \in Docs
    /\ res = NotCalled

CallExtractPrice ==
    /\ res = NotCalled
    /\ res' = Called("extract_price", extract_price(arg))
    /\ UNCHANGED <<arg, RunVars>>

CallExtractAvailability ==
    /\ res = NotCalled
    /\ res' = Called("extract_availability", extract_availability(arg))
    /\ UNCHANGED <<arg, RunVars>>

CallExtractDetails ==
    /\ res = NotCalled
    /\ res' = Called("extract_details", PyList(extract_details(arg)))
    /\ UNCHANGED <<arg, RunVars>>

NextExtract ==
    \/ CallExtractPrice
    \/ CallExtractAvailability
    \/ CallExtractDetails

SpecExtract == InitExtract /\ [][NextExtract]_vars

---------------------------------------------------------------------------
(* The differ as a function of the two snapshots: SpecDiff draws an old     *)
(* value (None or a snapshot) and a new snapshot and applies                *)
(* summarize_changes to them.                                               *)

DiffPrices == {PyNone, PyStr(""), PyStr("100.00"), PyStr("150.00")}

DiffAvailabilities == {PyNone, PyStr(""), PyStr("Skladem")}

DiffDetails == {<<>>, <<"A">>, <<"A", "B">>, <<"B", "C">>}

DiffTimes == {1, 2}

DiffSnapshots ==
    {PyDict([price |-> p, availability |-> a, details |-> PyList(d), checked_at |-> t]) :
        p \in DiffPrices, a \in DiffAvailabilities, d \in DiffDetails, t \in DiffTimes}

InitDiff ==
    /\ RunAtRest
    /\ arg \in [old : DiffSnapshots \cup {PyNone}, new : DiffSnapshots]
    /\ res = NotCalled

CallSummarize ==
    /\ res = NotCalled
    /\ res' = Called("summarize_changes", summarize_changes(arg.old, arg.new))
    /\ UNCHANGED <<arg, RunVars>>

NextDiff == CallSummarize

SpecDiff == InitDiff /\ [][NextDiff]_vars

---------------------------------------------------------------------------
(* Properties of the checker and of the command line run (Spec) *)

\* The fields of a snapshot the differ compares
SameFields(a, b) ==
    /\ a.val.price = b.val.price
    /\ a.val.availability = b.val.availability
    /\ a.val.details = b.val.details

\* A row that holds a snapshot object: JSON, an object, its details a list
IsSnapshotRow(row) ==
    /\ row.present
    /\ row.snapshot.valid
    /\ row.snapshot.doc.type = "dict"
    /\ "details" \in DOMAIN row.snapshot.doc.val
    /\ row.snapshot.doc.val.details.type = "list"

\* A full ChangeReport: changed, changes, old, new
IsReport(r) == DOMAIN r = {"changed", "changes", "old", "new"}

\* The report of the "no prior record" path for the snapshot new
IsNoPriorReport(r, new) ==
    /\ r.changed = TRUE
    /\ r.changes = <<NoPriorMessage>>
    /\ r.old = PyNone
    /\ r.new = new

\* The call of check_page that has just ended
LastCall == calls[Len(calls)]

\* C1: after a call check_page(u, persist=true) whose fetch succeeded, the
\* table holds under u the snapshot the call built, and load_state(u)
\* returns it, whatever the report says.
C1_PersistWritesSnapshot ==
    (Len(calls) > 0 /\ LastCall.persist /\ LastCall.fetched)
        => /\ store[LastCall.url].present
           /\ load_state(store, LastCall.url) = LastCall.new

\* C2: two calls of check_page in succession on the same url, both with
\* persist, both fetched, the page giving the same price, availability and
\* details: the second returns a report with changed false, no entries, and
\* old equal to new in the three fields, checked_at differing.
C2_SecondRunUnchanged ==
    \A i \in 2..Len(calls) :
        (/\ calls[i - 1].url = calls[i].url
         /\ calls[i - 1].persist /\ calls[i].persist
         /\ calls[i - 1].fetched /\ calls[i].fetched
         /\ SameFields(calls[i - 1].new, calls[i].new))
        => /\ ~calls[i].result.raised
           /\ calls[i].result.value.changed = FALSE
           /\ calls[i].result.value.changes = <<>>
           /\ calls[i].result.value.old # PyNone
           /\ SameFields(calls[i].result.value.old, calls[i].result.value.new)
           /\ calls[i].result.value.old.val.checked_at
                # calls[i].result.value.new.val.checked_at

\* C3: at the end of a run with the default flags over distinct urls, every
\* url of the list has one entry, an error record when its fetch failed and
\* a full report when its fetch succeeded, and no other url has an entry.
C3_BatchIsolation ==
    (/\ pc = "done"
     /\ ~no_save
     /\ \A i, j \in 1..Len(urls) : urls[i] = urls[j] => i = j)
        => /\ Len(calls) = Len(urls)
           /\ \A k \in 1..Len(urls) :
                /\ calls[k].url = urls[k]
                /\ ~calls[k].fetched => results[urls[k]].kind = "error"
                /\ calls[k].fetched =>
                     /\ results[urls[k]].kind = "report"
                     /\ IsReport(results[urls[k]].report)
           /\ \A u \in URLs :
                (\A k \in 1..Len(urls) : urls[k] # u) => results[u] = NoEntry

\* C4: a call whose fetch succeeded on a url whose row is absent, not JSON, or
\* JSON that is no snapshot object never raises because of the row, and what
\* it returns is the "no prior record" report.
C4_CorruptStoredIsNoPrior ==
    \A k \in 1..Len(calls) :
        (calls[k].fetched /\ ~IsSnapshotRow(calls[k].stored))
        => /\ calls[k].result.raised
                => calls[k].result.exc \notin {AttributeError, NoneNotIterable}
           /\ ~calls[k].result.raised
                => IsNoPriorReport(calls[k].result.value, calls[k].new)

\* C5: a call whose fetch succeeded on a url with no row returns, with either
\* value of persist, the report with changed true, old absent and the single
\* "no prior record" entry.
C5_FirstRunReport ==
    \A k \in 1..Len(calls) :
        (calls[k].fetched /\ ~calls[k].stored.present)
        => /\ ~calls[k].result.raised
           /\ IsNoPriorReport(calls[k].result.value, calls[k].new)

\* C6: a call of check_page made with persist false, or that ends in an
\* error, leaves the table as it was; and the reports of the calls of a run
\* without persist on one url all have the same old, the snapshot the table
\* still holds for the url.
C6_StepKeepsStore ==
    Len(calls') = Len(calls) + 1
        => LET c == calls'[Len(calls')]
           IN  /\ (~c.persist \/ c.result.raised) => store' = store
               /\ \A k \in 1..Len(calls') :
                    (/\ calls'[k].url = c.url
                     /\ ~calls'[k].persist /\ ~c.persist
                     /\ ~calls'[k].result.raised /\ ~c.result.raised)
                    => /\ calls'[k].result.value.old = c.result.value.old
                       /\ c.result.value.old = load_state(store', c.url)

C6_NoSaveKeepsStore == [][C6_StepKeepsStore]_vars

\* C6 happens: two calls without persist on a url whose row holds a snapshot
\* have returned reports that diff against it, in a run where another call
\* or this one could have written.
C6_Witness ==
    \E i, j \in 1..Len(calls) :
        /\ i < j
        /\ calls[i].url = calls[j].url
        /\ ~calls[i].persist /\ ~calls[j].persist
        /\ ~calls[i].result.raised /\ ~calls[j].result.raised
        /\ calls[j].result.value.old # PyNone
        /\ calls[j].result.value.changed
        /\ IsSnapshotRow(store[calls[j].url])

---------------------------------------------------------------------------
(* Properties of the details and price extractors (SpecExtract) *)

\* C7: the list extract_details returns has no empty entry and no two
\* entries that are equal once whitespace is collapsed, whichever step of
\* the cascade returned it.
C7_DetailsDeduplicated ==
    res.fn = "extract_details"
        => /\ \A k \in 1..Len(res.value.val) : Collapse(res.value.val[k]) # ""
           /\ \A i, j \in 1..Len(res.value.val) :
                Collapse(res.value.val[i]) = Collapse(res.value.val[j]) => i = j

\* The elements of the document arg that carry the price marker, that have
\* "price" in class or id, and the currency match in the page text
MarkerAt(i) == i \in 1..Len(arg) /\ arg[i].itemprop = "price"

FirstMarkerAt(i) == MarkerAt(i) /\ \A j \in 1..(i - 1) : ~MarkerAt(j)

ClassAt(i) ==
    i \in 1..Len(arg) /\ (Contains(arg[i].cls, "price") \/ Contains(arg[i].id, "price"))

FirstClassAt(i) == ClassAt(i) /\ \A j \in 1..(i - 1) : ~ClassAt(j)

HasMarker == \E i \in 1..Len(arg) : MarkerAt(i)

HasClass == \E i \in 1..Len(arg) : ClassAt(i)

PageCurrencyMatch == CurrencySearch(soup_get_text(arg, " "), 1)

\* The value of an element for the price: a meta element's content attribute,
\* any other element's visible text
PriceSource(el) == IF el.tag = "meta" THEN el.content ELSE PyStr(get_text(el, " "))

\* Steps 1 to 3, first come first served: with a marker element the price is
\* the normalized value of the first one, whatever steps 2 and 3 would give;
\* step 2 gives the price only without a marker element, step 3 only without
\* a marker element and without a currency match; without any, None.
CascadeOrder ==
    /\ \A i \in 1..Len(arg) :
         FirstMarkerAt(i) => res.value = normalize_price(PriceSource(arg[i]))
    /\ (~HasMarker /\ PageCurrencyMatch # PyNone)
         => res.value = normalize_price(PageCurrencyMatch)
    /\ \A i \in 1..Len(arg) :
         (~HasMarker /\ PageCurrencyMatch = PyNone /\ FirstClassAt(i))
            => res.value = normalize_price(PriceSource(arg[i]))
    /\ (~HasMarker /\ PageCurrencyMatch = PyNone /\ ~HasClass) => res.value = PyNone

\* What each step would give on its own (PyNone: it finds nothing)
Step1Value ==
    IF HasMarker
    THEN normalize_price(PriceSource(arg[CHOOSE i \in 1..Len(arg) : FirstMarkerAt(i)]))
    ELSE PyNone

Step2Value ==
    IF PageCurrencyMatch # PyNone THEN normalize_price(PageCurrencyMatch) ELSE PyNone

Step3Value ==
    IF HasClass
    THEN normalize_price(PriceSource(arg[CHOOSE i \in 1..Len(arg) : FirstClassAt(i)]))
    ELSE PyNone

\* C9 as stated: the cascade order, and None is returned only when all three
\* steps find nothing.
C9_NoneOnlyWhenAllFail ==
    res.fn = "extract_price"
        => /\ CascadeOrder
           /\ res.value = PyNone
                => (Step1Value = PyNone /\ Step2Value = PyNone /\ Step3Value = PyNone)

\* A value the normalizer turns into None: an absent attribute or an empty text
IsEmptySource(v) == v = PyNone \/ v = PyStr("")

\* C9 amended: the cascade order, and None is returned exactly when the step
\* that is used has nothing to normalize: the first marker element has no
\* content attribute (meta) or an empty one or an empty text, or there is no
\* marker element and no currency match and either no element with "price"
\* in class or id or the first such element has an empty text.
C9_CascadeFirstLocated ==
    res.fn = "extract_price"
        => /\ CascadeOrder
           /\ res.value = PyNone
                <=> \/ \E i \in 1..Len(arg) :
                         FirstMarkerAt(i) /\ IsEmptySource(PriceSource(arg[i]))
                    \/ /\ ~HasMarker
                       /\ PageCurrencyMatch = PyNone
                       /\ \A i \in 1..Len(arg) :
                            FirstClassAt(i) => IsEmptySource(PriceSource(arg[i]))

\* C9 happens: the document has a marker element, a currency match in its
\* text and an element with "price" in its class, the three giving different
\* values, and the price returned is the marker's.
C9_Witness ==
    /\ res.fn = "extract_price"
    /\ HasMarker
    /\ Step1Value # PyNone /\ Step2Value # PyNone /\ Step3Value # PyNone
    /\ Step1Value # Step2Value /\ Step1Value # Step3Value
    /\ res.value = Step1Value

---------------------------------------------------------------------------
(* Properties of the differ (SpecDiff) *)

\* Whether the string s starts with the string prefix
HasPrefix(s, prefix) == StartsAt(s, prefix, 1)

\* The entries of a changes list that start with a prefix
EntriesWith(changes, prefix) == {k \in 1..Len(changes) : HasPrefix(changes[k], prefix)}

\* None or the empty string
IsBlank(v) == v = PyNone \/ v = PyStr("")

\* The text str() gives a field's value in a message
Shown(v) == IF v = PyNone THEN "None" ELSE v.val

\* One field of the report under the null-equivalence: no entry when both
\* sides are blank; when one side is blank and the other a value, one entry
\* "label: old -> new" and changed.
NullEquivalent(report, label, old_v, new_v) ==
    /\ (IsBlank(old_v) /\ IsBlank(new_v))
         => EntriesWith(report.changes, label) = {}
    /\ (IsBlank(old_v) # IsBlank(new_v))
         => /\ Cardinality(EntriesWith(report.changes, label)) = 1
            /\ \E k \in 1..Len(report.changes) :
                 report.changes[k] = label \o Shown(old_v) \o " -> " \o Shown(new_v)
            /\ report.changed = TRUE

\* C8: with an old snapshot, price and availability are each compared with
\* None taken as "": no entry for a field blank on both sides, one entry
\* "old -> new" and changed = true for a field blank on one side only.
C8_NullEquivalence ==
    (res.fn = "summarize_changes" /\ arg.old # PyNone)
        => /\ ~res.value.raised
           /\ NullEquivalent(res.value.value, "Cena: ",
                             arg.old.val.price, arg.new.val.price)
           /\ NullEquivalent(res.value.value, "Dostupnost: ",
                             arg.old.val.availability, arg.new.val.availability)

\* C8 happens: availability None before and "Skladem" now is reported as
\* "None -> Skladem", the prices being None and "".
C8_Witness ==
    /\ res.fn = "summarize_changes"
    /\ arg.old # PyNone
    /\ arg.old.val.availability = PyNone
    /\ arg.new.val.availability = PyStr("Skladem")
    /\ arg.old.val.price = PyNone
    /\ arg.new.val.price = PyStr("")
    /\ res.value.value.changes = <<"Dostupnost: None -> Skladem">>
    /\ res.value.value.changed

\* The comparisons of the differ, stated on the two snapshots
PriceDiffers(old, new) ==
    (IF IsBlank(old.val.price) THEN "" ELSE old.val.price.val)
        # (IF IsBlank(new.val.price) THEN "" ELSE new.val.price.val)

AvailabilityDiffers(old, new) ==
    (IF IsBlank(old.val.availability) THEN "" ELSE old.val.availability.val)
        # (IF IsBlank(new.val.availability) THEN "" ELSE new.val.availability.val)

Elems(xs) == {xs[k] : k \in 1..Len(xs)}

SomeAdded(old, new) == Elems(new.val.details.val) \ Elems(old.val.details.val) # {}

SomeRemoved(old, new) == Elems(old.val.details.val) \ Elems(new.val.details.val) # {}

\* The kind of an entry: 1 price, 2 availability, 3 added, 4 removed, 0 other
EntryKind(entry) ==
    IF HasPrefix(entry, "Cena: ") THEN 1
    ELSE IF HasPrefix(entry, "Dostupnost: ") THEN 2
    ELSE IF HasPrefix(entry, "Pridano v podrobnostech: ") THEN 3
    ELSE IF HasPrefix(entry, "Odebrano v podrobnostech: ") THEN 4
    ELSE 0

KindsOf(changes) == {EntryKind(changes[k]) : k \in 1..Len(changes)}

\* C10: changed is true exactly when changes is not empty, exactly when old
\* is absent or a comparison fired; with an old snapshot the entries are the
\* comparisons that fired, one each, in the order price, availability,
\* added, removed; snapshots that differ only in checked_at give no entry.
C10_ChangedIffEntries ==
    res.fn = "summarize_changes"
        => LET r == res.value.value
               old == arg.old
               new == arg.new
           IN  /\ ~res.value.raised
               /\ r.changed <=> Len(r.changes) > 0
               /\ r.changed <=> \/ old = PyNone
                                \/ PriceDiffers(old, new)
                                \/ AvailabilityDiffers(old, new)
                                \/ SomeAdded(old, new)
                                \/ SomeRemoved(old, new)
               /\ old = PyNone => r.changes = <<NoPriorMessage>>
               /\ old # PyNone =>
                    /\ \A i, j \in 1..Len(r.changes) :
                         i < j => EntryKind(r.changes[i]) < EntryKind(r.changes[j])
                    /\ KindsOf(r.changes) =
                         {k \in 1..4 : \/ k = 1 /\ PriceDiffers(old, new)
                                       \/ k = 2 /\ AvailabilityDiffers(old, new)
                                       \/ k = 3 /\ SomeAdded(old, new)
                                       \/ k = 4 /\ SomeRemoved(old, new)}
               /\ (old # PyNone /\ SameFields(old, new))
                    => (r.changed = FALSE /\ r.changes = <<>>)

\* C10 happens: the four comparisons fired and the report lists them in the
\* fixed order.
C10_Witness ==
    /\ res.fn = "summarize_changes"
    /\ arg.old # PyNone
    /\ res.value.value.changed
    /\ Len(res.value.value.changes) = 4
    /\ [k \in 1..4 |-> EntryKind(res.value.value.changes[k])] = <<1, 2, 3, 4>>

====
